---- MODULE Spec2Model ----
(***************************************************************************)
(* Model of the billing dialog of ClearShelf                                *)
(* (src/components/shopkeeper/BillingDialog.tsx): the React state of each   *)
(* terminal's dialog (isOpen, cart, isScanning, isCheckingOut,              *)
(* isCameraOpen), the in-flight processImage / resolveScannedProductToCart  *)
(* calls, the in-flight finalizeCheckout calls, and the inventory_batches   *)
(* table of the remote directory that all terminals share.  Every await of  *)
(* the source is a step boundary; the code between two awaits is one        *)
(* action.  The products table is never written by this program, so the     *)
(* two product queries of a resolution are evaluated in the step that       *)
(* receives the OCR result.  A call that returns leaves its slot; returned   *)
(* and resolved hold it for the one state that follows its last step.       *)
(* Spec is the dialog of one terminal with its camera scans, cart edits and *)
(* checkout; SpecScan, SpecOverlap, SpecUpload, SpecCheckout, SpecRace and  *)
(* SpecStale run parts of it from the states the properties are about:      *)
(* scans one after the other, overlapping captures, a multi-image upload,   *)
(* one terminal checking out, two terminals checking out, and one terminal  *)
(* scanning while the other sells from the same batches.                    *)
(***************************************************************************)
EXTENDS Integers, Sequences, FiniteSets, TLC

(* ------------------------------ bounds -------------------------------- *)
\* largest quantity a batch holds in an initial directory
MaxQty == 2
\* scans (captures) started over a behaviour of Spec
MaxScans == 2
\* scans started over a behaviour of SpecScan
MaxResolves == 3
\* finalizeCheckout invocations over a behaviour of Spec
MaxCheckouts == 1
\* finalizeCheckout invocations over a behaviour of SpecCheckout
MaxSales == 2
\* images selected in one upload
MaxImages == 2
\* scans started over a behaviour of SpecOverlap
MaxOverlapped == 2
\* largest number typed into a quantity field
MaxTyped == 2
\* largest quantity of a cart line in an initial state of SpecCheckout
MaxLineQty == 3

(* --------------------------- the directory ---------------------------- *)
Terminals == {"t1", "t2"}
\* every terminal is a BillingDialog of the same shop (prop shopId)
shopId == "shopA"

Products == {"p1", "p2", "p3"}

\* products.name, a string as the sequence of its characters
ProductName(p) ==
    CASE p = "p1" -> <<"T", "e", "a">>
      [] p = "p2" -> <<"t", "e", "a", "k">>
      [] OTHER    -> <<"O", "a", "t">>

\* products.gtin ("" is SQL NULL)
ProductGtin(p) ==
    CASE p = "p1" -> "g1"
      [] p = "p2" -> "g2"
      [] OTHER    -> ""

BatchIds == {"b1", "b2", "b3", "b4"}

\* the immutable columns of inventory_batches
BatchRow(b) ==
    CASE b = "b1" -> [product_id |-> "p1", shop_id |-> "shopA",
                      expiry_date |-> "2024-01-01", mrp |-> 10, discount_percent |-> 0]
      [] b = "b2" -> [product_id |-> "p1", shop_id |-> "shopA",
                      expiry_date |-> "2024-02-01", mrp |-> 12, discount_percent |-> 50]
      [] b = "b3" -> [product_id |-> "p2", shop_id |-> "shopA",
                      expiry_date |-> "2024-02-01", mrp |-> 30, discount_percent |-> 0]
      [] OTHER    -> [product_id |-> "p1", shop_id |-> "shopB",
                      expiry_date |-> "2024-01-01", mrp |-> 10, discount_percent |-> 0]

\* ISO dates in ascending order; the directory orders expiry_date by this
ExpiryDates == <<"2024-01-01", "2024-02-01">>
ExpiryRank(d) == CHOOSE i \in 1..Len(ExpiryDates) : ExpiryDates[i] = d

(* ------------------------------ strings ------------------------------- *)
Lower(c) ==
    CASE c = "T" -> "t"
      [] c = "O" -> "o"
      [] c = "E" -> "e"
      [] OTHER   -> c

LowerStr(s) == [i \in 1..Len(s) |-> Lower(s[i])]

RECURSIVE TrimLeft(_)
TrimLeft(s) == IF s # <<>> /\ Head(s) = " " THEN TrimLeft(Tail(s)) ELSE s

RECURSIVE TrimRight(_)
TrimRight(s) ==
    IF s # <<>> /\ s[Len(s)] = " " THEN TrimRight(SubSeq(s, 1, Len(s) - 1)) ELSE s

\* String.prototype.trim
Trim(s) == TrimRight(TrimLeft(s))

\* name ILIKE '%q%': q occurs in name, letter case ignored
ILikeContains(name, q) ==
    \E i \in 0..(Len(name) - Len(q)) :
        LowerStr(SubSeq(name, i + 1, i + Len(q))) = LowerStr(q)

(* ---------------------------- sequences ------------------------------- *)
RECURSIVE SeqSum(_)
SeqSum(s) == IF s = <<>> THEN 0 ELSE Head(s) + SeqSum(Tail(s))

Min(a, b) == IF a <= b THEN a ELSE b

\* the orders in which the directory may return the rows S
Orderings(S) ==
    {o \in [1..Cardinality(S) -> S] : \A i, j \in 1..Cardinality(S) : i # j => o[i] # o[j]}

\* the first n elements of s (a query's .limit(n))
Limit(s, n) == SubSeq(s, 1, Min(n, Len(s)))

VARIABLES
    batches,        \* inventory_batches: id -> [quantity, status]
    isOpen,         \* terminal -> BOOLEAN
    cart,           \* terminal -> sequence of CartItem
    isScanning,     \* terminal -> BOOLEAN
    isCheckingOut,  \* terminal -> BOOLEAN
    isCameraOpen,   \* terminal -> BOOLEAN
    scans,          \* the processImage calls in flight
    checkouts,      \* the finalizeCheckout calls in flight
    returned,       \* the finalizeCheckout call that returned in the last step
    resolved,       \* the processImage call that returned in the last step
    upload,         \* the handleImageUpload call
    nScans,         \* scans started so far
    nCheckouts      \* checkouts started so far

vars == <<batches, isOpen, cart, isScanning, isCheckingOut, isCameraOpen,
          scans, checkouts, returned, resolved, upload, nScans, nCheckouts>>

dialog == <<isOpen, cart, isScanning, isCheckingOut, isCameraOpen>>

(* ------------------------- directory queries -------------------------- *)
\* ActiveBatches without the shop filter
ActiveBatchesOfAnyShop(dir, p) ==
    {b \in BatchIds : /\ BatchRow(b).product_id = p
                      /\ dir[b].status = "active"
                      /\ dir[b].quantity > 0}

\* from("inventory_batches") .eq(product_id) .eq(shop_id) .eq(status, active)
\* .gt(quantity, 0), evaluated on the table dir
ActiveBatches(dir, p) ==
    {b \in BatchIds : /\ BatchRow(b).product_id = p
                      /\ BatchRow(b).shop_id = shopId
                      /\ dir[b].status = "active"
                      /\ dir[b].quantity > 0}

\* the same query with .eq(expiry_date, d)
ActiveBatchesExpiring(dir, p, d) ==
    {b \in ActiveBatches(dir, p) : BatchRow(b).expiry_date = d}

RECURSIVE SumQuantity(_, _)
SumQuantity(dir, S) ==
    IF S = {} THEN 0
    ELSE LET b == CHOOSE x \in S : TRUE IN dir[b].quantity + SumQuantity(dir, S \ {b})

\* FefoOrders with the sort descending
FefoOrdersDescending(S) ==
    {o \in Orderings(S) :
        \A i, j \in 1..Cardinality(S) :
            i < j => ExpiryRank(BatchRow(o[i]).expiry_date)
                         >= ExpiryRank(BatchRow(o[j]).expiry_date)}

\* .order("expiry_date", ascending): every row order the sort allows
FefoOrders(S) ==
    {o \in Orderings(S) :
        \A i, j \in 1..Cardinality(S) :
            i < j => ExpiryRank(BatchRow(o[i]).expiry_date)
                         <= ExpiryRank(BatchRow(o[j]).expiry_date)}

\* from("products").eq("gtin", g).maybeSingle(): the row when exactly one
\* matches, otherwise no data ("" stands for null)
ProductByGtin(g) ==
    LET rows == {p \in Products : ProductGtin(p) = g}
    IN  IF Cardinality(rows) = 1 THEN CHOOSE p \in rows : TRUE ELSE ""

\* .limit(5) of the name search
NameLimit == 5

\* from("products").ilike("name", %q%).limit(5): the query has no order, so
\* every row order the directory may answer with
ProductsByName(q) ==
    {Limit(o, NameLimit) :
        o \in Orderings({p \in Products : ILikeContains(ProductName(p), q)})}

(* ------------------------------ inputs -------------------------------- *)
\* what the OCR function may return: { gtin, productName, expiryDate }, any
\* field absent ("" and <<>> are the falsy values of the source)
Guess(gtin, productName, expiryDate) ==
    [gtin |-> gtin, productName |-> productName, expiryDate |-> expiryDate]
NoGuess == Guess("", <<>>, "")
Guesses ==
    { NoGuess,
      Guess("g1", <<>>, ""),
      Guess("g1", <<>>, "2024-01-01"),
      Guess("g1", <<" ", "a", "k", " ">>, "2024-02-01"),
      Guess("g9", <<>>, ""),
      Guess("g9", <<"t", "E", "a">>, ""),
      Guess("", <<"t", "E", "a">>, "2024-01-01"),
      Guess("", <<"t", "E", "a">>, "2024-02-01"),
      Guess("", <<" ", "a", "k", " ">>, "2024-01-01"),
      Guess("", <<"o", "a", "t">>, ""),
      Guess("", <<"x">>, "") }

\* the calls that may be in flight at once
ScanSlots == {1, 2}
CheckoutSlots == {1, 2}

IdleScan ==
    [pc |-> "idle", term |-> "t1", guess |-> NoGuess, cands |-> <<>>, idx |-> 0,
     product |-> "", outcome |-> "",
     \* the cart the call found when it returned and whether another call
     \* was in flight when it started, read by the properties only
     cartBefore |-> <<>>, overlap |-> FALSE,
     \* the image of the upload the call works on, 0 for a camera capture
     image |-> 0]

\* the handleImageUpload call: the images selected (files of them, numbered
\* in selection order), the one the loop is at, and which await it is in
IdleUpload ==
    [pc |-> "idle", term |-> "t1", files |-> 0, k |-> 0,
     \* the images handed to the OCR function so far, in order, and the
     \* images whose file could not be read; read by the properties only
     submitted |-> <<>>, unreadable |-> {}]

\* the directories a behaviour may start from: status is sold_out exactly
\* for the empty batches
RowOf(q) == [quantity |-> q, status |-> IF q = 0 THEN "sold_out" ELSE "active"]

NoReceipt == [rendered |-> FALSE, lines |-> <<>>, subtotal |-> 0]

IdleCheckout ==
    [pc |-> "idle", term |-> "t1", items |-> <<>>, line |-> 0, fetched |-> <<>>,
     bidx |-> 0, quantityToDeduct |-> 0, outcome |-> "", errName |-> <<>>,
     errKind |-> "", window |-> FALSE, receipt |-> NoReceipt,
     \* history of the call, read by the properties only
     ncalls |-> 0, failedAt |-> -1, interfered |-> FALSE,
     dirAtStart |-> [b \in BatchIds |-> RowOf(0)]]

\* b1 and b2 (the two batches of p1 at this shop) hold any quantity up to
\* MaxQty, the other batches hold one unit
InitialDirectories ==
    {[b \in BatchIds |-> RowOf(IF b \in {"b1", "b2"} THEN f[b] ELSE 1)] :
        f \in [{"b1", "b2"} -> 0..MaxQty]}

(* --------------------------- dialog actions --------------------------- *)
\* resetState
resetState(t) ==
    /\ cart' = [cart EXCEPT ![t] = <<>>]
    /\ isScanning' = [isScanning EXCEPT ![t] = FALSE]
    /\ isCheckingOut' = [isCheckingOut EXCEPT ![t] = FALSE]
    /\ isCameraOpen' = [isCameraOpen EXCEPT ![t] = FALSE]

\* the DialogTrigger ("Start Billing"): onOpenChange(true)
OpenDialog(t) ==
    /\ ~isOpen[t]
    /\ isOpen' = [isOpen EXCEPT ![t] = TRUE]
    /\ UNCHANGED <<batches, cart, isScanning, isCheckingOut, isCameraOpen,
                   scans, checkouts, nScans, nCheckouts>>
    /\ returned' = IdleCheckout
    /\ resolved' = IdleScan
    /\ UNCHANGED upload

\* Cancel, Escape or the close button: onOpenChange(false)
CloseDialog(t) ==
    /\ isOpen[t]
    /\ isOpen' = [isOpen EXCEPT ![t] = FALSE]
    /\ resetState(t)
    /\ UNCHANGED <<batches, scans, checkouts, nScans, nCheckouts>>
    /\ returned' = IdleCheckout
    /\ resolved' = IdleScan
    /\ UNCHANGED upload

\* the "Capture (Camera)" button, disabled while isScanning
OpenCamera(t) ==
    /\ isOpen[t] /\ ~isScanning[t] /\ ~isCameraOpen[t]
    /\ isCameraOpen' = [isCameraOpen EXCEPT ![t] = TRUE]
    /\ UNCHANGED <<batches, isOpen, cart, isScanning, isCheckingOut,
                   scans, checkouts, nScans, nCheckouts>>
    /\ returned' = IdleCheckout
    /\ resolved' = IdleScan
    /\ UNCHANGED upload

\* the camera modal's onOpenChange / CameraScan onClose
CloseCamera(t) ==
    /\ isOpen[t] /\ isCameraOpen[t]
    /\ isCameraOpen' = [isCameraOpen EXCEPT ![t] = FALSE]
    /\ UNCHANGED <<batches, isOpen, cart, isScanning, isCheckingOut,
                   scans, checkouts, nScans, nCheckouts>>
    /\ returned' = IdleCheckout
    /\ resolved' = IdleScan
    /\ UNCHANGED upload

(* ------------------------------ cart ---------------------------------- *)
HasLine(c, pid) == \E i \in 1..Len(c) : c[i].productId = pid

\* Array.prototype.find: the index of the first line of the product
FindIndex(c, pid) ==
    CHOOSE i \in 1..Len(c) :
        /\ c[i].productId = pid
        /\ \A j \in 1..(i - 1) : c[j].productId # pid

\* changeQty's map callback
ChangedItem(item, productId, newQty) ==
    IF item.productId = productId
    THEN IF newQty > 0 /\ newQty <= item.availableQty
         THEN [item EXCEPT !.qty = newQty]
         ELSE IF newQty > item.availableQty
              THEN [item EXCEPT !.qty = item.availableQty]
              ELSE item
    ELSE item

\* changeQty
changeQty(t, productId, newQty) ==
    /\ isOpen[t]
    /\ HasLine(cart[t], productId)
    /\ cart' = [cart EXCEPT ![t] =
                  [i \in 1..Len(cart[t]) |-> ChangedItem(cart[t][i], productId, newQty)]]
    /\ UNCHANGED <<batches, isOpen, isScanning, isCheckingOut, isCameraOpen,
                   scans, checkouts, nScans, nCheckouts>>
    /\ returned' = IdleCheckout
    /\ resolved' = IdleScan
    /\ UNCHANGED upload

\* removeItem
removeItem(t, productId) ==
    /\ isOpen[t]
    /\ HasLine(cart[t], productId)
    /\ cart' = [cart EXCEPT ![t] =
                  SelectSeq(cart[t], LAMBDA item : item.productId # productId)]
    /\ UNCHANGED <<batches, isOpen, isScanning, isCheckingOut, isCameraOpen,
                   scans, checkouts, nScans, nCheckouts>>
    /\ returned' = IdleCheckout
    /\ resolved' = IdleScan
    /\ UNCHANGED upload

\* unitPrice = mrp * (1 - (discount_percent || 0) / 100), kept in hundredths
UnitPrice(b) == BatchRow(b).mrp * (100 - BatchRow(b).discount_percent)

\* MergedCart computed on the cart of the render the call started in
\* (setCart with a value instead of an updater): the line is always appended
MergedCartAppending(currentCart, productId, gtin, availableQty, unitPrice) ==
    Append(currentCart,
           [productId |-> productId, gtin |-> gtin, name |-> ProductName(productId),
            qty |-> 1, unitPrice |-> unitPrice, availableQty |-> availableQty])

\* MergedCart with the line brought up to date on every scan
MergedCartRefreshing(currentCart, productId, gtin, availableQty, unitPrice) ==
    IF HasLine(currentCart, productId)
    THEN [i \in 1..Len(currentCart) |->
            IF currentCart[i].productId = productId
            THEN [currentCart[i] EXCEPT
                     !.qty = IF @ < availableQty THEN @ + 1 ELSE @,
                     !.availableQty = availableQty, !.unitPrice = unitPrice]
            ELSE currentCart[i]]
    ELSE Append(currentCart,
                [productId |-> productId, gtin |-> gtin, name |-> ProductName(productId),
                 qty |-> 1, unitPrice |-> unitPrice, availableQty |-> availableQty])

\* the setCart updater of resolveScannedProductToCart (step 4)
MergedCart(currentCart, productId, gtin, availableQty, unitPrice) ==
    IF HasLine(currentCart, productId)
    THEN [i \in 1..Len(currentCart) |->
            IF /\ currentCart[i].productId = productId
               /\ currentCart[FindIndex(currentCart, productId)].qty < availableQty
            THEN [currentCart[i] EXCEPT !.qty = @ + 1]
            ELSE currentCart[i]]
    ELSE Append(currentCart,
                [productId |-> productId, gtin |-> gtin, name |-> ProductName(productId),
                 qty |-> 1, unitPrice |-> unitPrice, availableQty |-> availableQty])

(* ------------------- processImage and the resolver -------------------- *)
ScanFree(s) == scans[s].pc = "idle"

\* the slot a new call takes: the lowest one not in flight
NextScanSlot == CHOOSE s \in ScanSlots : ScanFree(s) /\ \A r \in ScanSlots : ScanFree(r) => s <= r

\* NextImage with the loop left at the first failure
NextImageUnlessFailed(u, failed) ==
    IF u.k < u.files /\ ~failed
    THEN [u EXCEPT !.pc = "read", !.k = @ + 1]
    ELSE [u EXCEPT !.pc = "done"]

\* the for loop of handleImageUpload once image k is dealt with, failed or
\* not: toBase64 of the next file is called, or the loop is over
NextImage(u, failed) ==
    IF u.k < u.files
    THEN [u EXCEPT !.pc = "read", !.k = @ + 1]
    ELSE [u EXCEPT !.pc = "done"]

\* the call in slot s returns with the toast what: the finally block of
\* processImage; a call made by handleImageUpload returns into its loop
ScanReturns(s, sc, what) ==
    /\ scans' = [scans EXCEPT ![s] = IdleScan]
    /\ resolved' = [sc EXCEPT !.pc = "done", !.outcome = what,
                              !.cartBefore = cart[sc.term]]
    /\ isScanning' = [isScanning EXCEPT ![sc.term] = FALSE]
    /\ upload' = IF sc.image = 0 THEN upload
                 ELSE NextImage(upload, what \notin {"Added", "Incremented"})

\* Unresolved with the cart cleared as resetState does
UnresolvedClearingCart(s, sc, what) ==
    /\ ScanReturns(s, sc, what)
    /\ cart' = [cart EXCEPT ![sc.term] = <<>>]

\* the resolver gives up with the toast what and returns: no setCart
Unresolved(s, sc, what) ==
    /\ ScanReturns(s, sc, what)
    /\ UNCHANGED cart

\* the call in slot s goes on to its next await
ScanGoesOn(s, sc) ==
    /\ scans' = [scans EXCEPT ![s] = sc]
    /\ resolved' = IdleScan
    /\ UNCHANGED upload
    /\ UNCHANGED <<cart, isScanning>>

\* CameraScan capture -> handleCapture -> processImage up to the OCR await.
\* The capture button is never disabled: a capture may start while earlier
\* ones are in flight; width is how many calls the behaviour lets overlap.
Capture(t, budget, width) ==
    /\ isOpen[t] /\ isCameraOpen[t]
    /\ nScans < budget
    /\ Cardinality({s \in ScanSlots : ~ScanFree(s)}) < width
    /\ scans' = [scans EXCEPT ![NextScanSlot] =
                    [IdleScan EXCEPT !.pc = "ocr", !.term = t,
                                     !.overlap = \E s \in ScanSlots : ~ScanFree(s)]]
    /\ isScanning' = [isScanning EXCEPT ![t] = TRUE]
    /\ nScans' = nScans + 1
    /\ returned' = IdleCheckout
    /\ resolved' = IdleScan
    /\ UNCHANGED upload
    /\ UNCHANGED <<batches, isOpen, cart, isCheckingOut, isCameraOpen, checkouts, nCheckouts>>

\* the "Upload Images" button (disabled while isScanning) and the file
\* picker's onChange with files images selected: handleImageUpload up to
\* the toBase64 await of the first file
handleImageUpload(t, files) ==
    /\ isOpen[t] /\ ~isScanning[t]
    /\ upload.pc = "idle"
    /\ upload' = [IdleUpload EXCEPT !.pc = "read", !.term = t, !.files = files, !.k = 1]
    /\ returned' = IdleCheckout
    /\ resolved' = IdleScan
    /\ UNCHANGED <<batches, isOpen, cart, isScanning, isCheckingOut, isCameraOpen,
                   scans, checkouts, nScans, nCheckouts>>

\* the FileReader fails on the current file: toBase64 rejects, the catch
\* block of the loop logs it and the loop goes on
toBase64Fails ==
    /\ upload.pc = "read"
    /\ upload' = NextImage([upload EXCEPT !.unreadable = @ \cup {upload.k}], TRUE)
    /\ returned' = IdleCheckout
    /\ resolved' = IdleScan
    /\ UNCHANGED <<batches, isOpen, cart, isScanning, isCheckingOut, isCameraOpen,
                   scans, checkouts, nScans, nCheckouts>>

\* the FileReader has read the current file: processImage runs up to the
\* OCR await
toBase64Returns ==
    /\ upload.pc = "read"
    /\ \E s \in ScanSlots : ScanFree(s)
    /\ scans' = [scans EXCEPT ![NextScanSlot] =
                    [IdleScan EXCEPT !.pc = "ocr", !.term = upload.term,
                                     !.image = upload.k,
                                     !.overlap = \E s \in ScanSlots : ~ScanFree(s)]]
    /\ upload' = [upload EXCEPT !.pc = "scan", !.submitted = Append(@, upload.k)]
    /\ isScanning' = [isScanning EXCEPT ![upload.term] = TRUE]
    /\ nScans' = nScans + 1
    /\ returned' = IdleCheckout
    /\ resolved' = IdleScan
    /\ UNCHANGED <<batches, isOpen, cart, isCheckingOut, isCameraOpen, checkouts, nCheckouts>>

\* the OCR call fails: the catch block of processImage
OcrFails(s) ==
    /\ scans[s].pc = "ocr"
    /\ ScanReturns(s, scans[s], "ScanFailed")
    /\ returned' = IdleCheckout
    /\ UNCHANGED <<batches, isOpen, cart, isCheckingOut, isCameraOpen, checkouts,
                   nScans, nCheckouts>>

\* CodeMatch with the GTIN looked up only for a guess without a name
CodeMatchUnlessNamed(g) ==
    IF g.gtin # "" /\ g.productName = <<>> THEN ProductByGtin(g.gtin) ELSE ""

\* step 1 of the resolver: the product of the GTIN lookup, "" when the guess
\* has no gtin or no single product carries it
CodeMatch(g) == IF g.gtin # "" THEN ProductByGtin(g.gtin) ELSE ""

\* step 2: the name search, made only without a GTIN match and with a name;
\* the results it may return
NameCandidates(g) ==
    IF CodeMatch(g) = "" /\ g.productName # <<>>
    THEN ProductsByName(Trim(g.productName))
    ELSE {<<>>}

\* the OCR call returns g; resolveScannedProductToCart runs up to its first
\* query on inventory_batches
OcrReturns(s, g) ==
    /\ scans[s].pc = "ocr"
    /\ \E products \in NameCandidates(g) :
         LET byCode == CodeMatch(g)
             sc == [scans[s] EXCEPT !.guess = g, !.cands = products]
         IN  IF byCode # ""
             THEN ScanGoesOn(s, [sc EXCEPT !.pc = "fetch", !.product = byCode])
             ELSE IF products # <<>>
             THEN IF g.expiryDate # ""
                  THEN ScanGoesOn(s, [sc EXCEPT !.pc = "probe", !.idx = 1])
                  ELSE ScanGoesOn(s, [sc EXCEPT !.pc = "fetch", !.product = products[1]])
             ELSE Unresolved(s, sc, "ProductNotFound")
    /\ returned' = IdleCheckout
    /\ UNCHANGED <<batches, isOpen, isCheckingOut, isCameraOpen, checkouts,
                   nScans, nCheckouts>>

\* Probe with the fallback taking the last candidate
ProbeFallingToLast(s) ==
    /\ scans[s].pc = "probe"
    /\ LET sc == scans[s]
           p == sc.cands[sc.idx]
           hit == ActiveBatchesExpiring(batches, p, sc.guess.expiryDate) # {}
       IN  ScanGoesOn(s,
                IF hit THEN [sc EXCEPT !.pc = "fetch", !.product = p, !.idx = 0]
                ELSE IF sc.idx < Len(sc.cands) THEN [sc EXCEPT !.idx = @ + 1]
                ELSE [sc EXCEPT !.pc = "fetch", !.product = sc.cands[Len(sc.cands)],
                                !.idx = 0])
    /\ returned' = IdleCheckout
    /\ UNCHANGED <<batches, isOpen, isCheckingOut, isCameraOpen, checkouts,
                   nScans, nCheckouts>>

\* one iteration of the expiry tie-break loop over the name candidates (the
\* query of candidate idx returns), and the fallback after the last one
Probe(s) ==
    /\ scans[s].pc = "probe"
    /\ LET sc == scans[s]
           p == sc.cands[sc.idx]
           hit == ActiveBatchesExpiring(batches, p, sc.guess.expiryDate) # {}
       IN  ScanGoesOn(s,
                IF hit THEN [sc EXCEPT !.pc = "fetch", !.product = p, !.idx = 0]
                ELSE IF sc.idx < Len(sc.cands) THEN [sc EXCEPT !.idx = @ + 1]
                ELSE [sc EXCEPT !.pc = "fetch", !.product = sc.cands[1], !.idx = 0])
    /\ returned' = IdleCheckout
    /\ UNCHANGED <<batches, isOpen, isCheckingOut, isCameraOpen, checkouts,
                   nScans, nCheckouts>>

\* AddToCart with the stock of the first batch only
AddToCartOfFirstBatch(s, rows, first) ==
    LET sc == scans[s]
        availableQty == batches[first].quantity
        merged == MergedCart(cart[sc.term], sc.product, sc.guess.gtin,
                             availableQty, UnitPrice(first))
    IN  /\ cart' = [cart EXCEPT ![sc.term] = merged]
        /\ ScanReturns(s, sc,
               IF ~HasLine(cart[sc.term], sc.product) THEN "Added"
               ELSE IF merged # cart[sc.term] THEN "Incremented"
               ELSE "MaxQuantityReached")

\* steps 3 (tail) and 4: rows are the batches the last inventory query
\* returned, first the one it returned first
AddToCart(s, rows, first) ==
    LET sc == scans[s]
        availableQty == SumQuantity(batches, rows)
        merged == MergedCart(cart[sc.term], sc.product, sc.guess.gtin,
                             availableQty, UnitPrice(first))
    IN  /\ cart' = [cart EXCEPT ![sc.term] = merged]
        /\ ScanReturns(s, sc,
               IF ~HasLine(cart[sc.term], sc.product) THEN "Added"
               ELSE IF merged # cart[sc.term] THEN "Incremented"
               ELSE "MaxQuantityReached")

\* the inventory query of step 3 returns
FetchInventory(s) ==
    /\ scans[s].pc = "fetch"
    /\ LET sc == scans[s]
           rows == IF sc.guess.expiryDate # ""
                   THEN ActiveBatchesExpiring(batches, sc.product, sc.guess.expiryDate)
                   ELSE ActiveBatches(batches, sc.product)
       IN  IF rows = {} /\ sc.guess.expiryDate # ""
           THEN ScanGoesOn(s, [sc EXCEPT !.pc = "fallback"])
           ELSE IF rows = {}
           THEN Unresolved(s, sc, "OutOfStock")
           ELSE \E first \in rows : AddToCart(s, rows, first)
    /\ returned' = IdleCheckout
    /\ UNCHANGED <<batches, isOpen, isCheckingOut, isCameraOpen, checkouts,
                   nScans, nCheckouts>>

\* the fallback query (no expiry filter) returns
FetchFallback(s) ==
    /\ scans[s].pc = "fallback"
    /\ LET sc == scans[s]
           rows == ActiveBatches(batches, sc.product)
       IN  IF rows = {}
           THEN Unresolved(s, sc, "OutOfStock")
           ELSE \E first \in rows : AddToCart(s, rows, first)
    /\ returned' = IdleCheckout
    /\ UNCHANGED <<batches, isOpen, isCheckingOut, isCameraOpen, checkouts,
                   nScans, nCheckouts>>

(* -------------------------- finalizeCheckout -------------------------- *)
CheckoutFree(c) == checkouts[c].pc = "idle"
InFlight(c) == checkouts[c].pc \in {"fetch", "update"}

NextCheckoutSlot ==
    CHOOSE c \in CheckoutSlots :
        CheckoutFree(c) /\ \A r \in CheckoutSlots : CheckoutFree(r) => c <= r

\* Subtotal with every line counted once, whatever its quantity
SubtotalOfPrices(c) == SeqSum([i \in 1..Len(c) |-> c[i].unitPrice])

\* cart.reduce((sum, item) => sum + item.qty * item.unitPrice, 0)
Subtotal(c) == SeqSum([i \in 1..Len(c) |-> c[i].qty * c[i].unitPrice])

\* generateReceiptHtml: the document is written only if window.open
\* returned a window
generateReceiptHtml(c, receiptWindow) ==
    IF receiptWindow
    THEN [rendered |-> TRUE,
          lines |-> [i \in 1..Len(c) |->
                        [name |-> c[i].name, qty |-> c[i].qty, unitPrice |-> c[i].unitPrice,
                         total |-> c[i].qty * c[i].unitPrice]],
          subtotal |-> Subtotal(c)]
    ELSE NoReceipt

\* Deduction without the cap at what the batch holds
DeductionInFull(quantityToDeduct, batchQuantity) == quantityToDeduct

\* const deduction = Math.min(quantityToDeduct, batch.quantity)
Deduction(quantityToDeduct, batchQuantity) == Min(quantityToDeduct, batchQuantity)

\* UpdatePayload with the status left active
UpdatePayloadActive(newQuantity) == [quantity |-> newQuantity, status |-> "active"]

\* the payload of the update: { quantity, status }
UpdatePayload(newQuantity) ==
    [quantity |-> newQuantity,
     status |-> IF newQuantity = 0 THEN "sold_out" ELSE "active"]

\* Where the two loops go once an await has returned without error: co is the
\* call with bidx at the next batch of the current line.  Either the next
\* update is issued, or the fetch of the next line, or the loops are over.
Continue(co) ==
    IF co.bidx <= Len(co.fetched) /\ co.quantityToDeduct # 0
    THEN [co EXCEPT !.pc = "update", !.ncalls = @ + 1]
    ELSE IF co.line < Len(co.items)
    THEN [co EXCEPT !.pc = "fetch", !.line = @ + 1, !.fetched = <<>>, !.bidx = 0,
                    !.quantityToDeduct = co.items[co.line + 1].qty, !.ncalls = @ + 1]
    ELSE [co EXCEPT !.pc = "done", !.outcome = "Success"]

\* Thrown with the error naming the first item of the cart
ThrownNamingFirst(co, kind) ==
    [co EXCEPT !.pc = "done", !.outcome = "PartialFailure", !.errKind = kind,
               !.errName = co.items[1].name, !.failedAt = co.ncalls]

\* Thrown with the error logged and the loops going on with the next batch
ThrownAndContinued(co, kind) ==
    Continue([co EXCEPT !.errKind = kind, !.errName = co.items[co.line].name,
                        !.failedAt = co.ncalls,
                        !.bidx = IF kind = "update" THEN @ + 1 ELSE 1])

\* the catch block: the call ends with the error naming the current item
Thrown(co, kind) ==
    [co EXCEPT !.pc = "done", !.outcome = "PartialFailure", !.errKind = kind,
               !.errName = co.items[co.line].name, !.failedAt = co.ncalls]

\* OpenAfter with the dialog closed whenever the call returns
OpenAfterClosing(open, co) == FALSE

\* setIsOpen(false) on full success only; the catch block leaves the dialog
OpenAfter(open, co) == IF co.outcome = "Success" THEN FALSE ELSE open

\* the dialog state once the call co has taken its step: on return (success
\* or catch) the finally block clears isCheckingOut; the cart is not written
Settle(co) ==
    /\ isOpen' = [isOpen EXCEPT ![co.term] =
                    IF co.pc = "done" THEN OpenAfter(@, co) ELSE @]
    /\ isCheckingOut' = [isCheckingOut EXCEPT ![co.term] =
                    IF co.pc = "done" THEN FALSE ELSE @]
    /\ returned' = IF co.pc = "done" THEN co ELSE IdleCheckout
    /\ resolved' = IdleScan
    /\ UNCHANGED upload
    /\ UNCHANGED <<cart, isScanning, isCameraOpen>>

\* the slot of a call after its step: free again once the call has returned
Slot(co) == IF co.pc = "done" THEN IdleCheckout ELSE co

\* Started with the receipt left for after the deduction
StartedWithoutReceipt(t, receiptWindow) ==
    [IdleCheckout EXCEPT
        !.pc = "fetch", !.term = t, !.items = cart[t], !.line = 1,
        !.quantityToDeduct = cart[t][1].qty,
        !.window = receiptWindow,
        !.ncalls = 1, !.dirAtStart = batches]

\* the call once it has reached its first await: the receipt is generated,
\* then the batch query of the first item is issued
Started(t, receiptWindow) ==
    [IdleCheckout EXCEPT
        !.pc = "fetch", !.term = t, !.items = cart[t], !.line = 1,
        !.quantityToDeduct = cart[t][1].qty,
        !.window = receiptWindow,
        !.receipt = generateReceiptHtml(cart[t], receiptWindow),
        !.ncalls = 1, !.dirAtStart = batches]

\* the "Finalize & Print Receipt" button (disabled while isCheckingOut or
\* with an empty cart): finalizeCheckout up to its first await
finalizeCheckout(t, receiptWindow, budget) ==
    /\ isOpen[t] /\ ~isCheckingOut[t] /\ cart[t] # <<>>
    /\ nCheckouts < budget
    /\ \E c \in CheckoutSlots : CheckoutFree(c)
    /\ checkouts' = [checkouts EXCEPT ![NextCheckoutSlot] = Started(t, receiptWindow)]
    /\ isCheckingOut' = [isCheckingOut EXCEPT ![t] = TRUE]
    /\ nCheckouts' = nCheckouts + 1
    /\ returned' = IdleCheckout
    /\ resolved' = IdleScan
    /\ UNCHANGED upload
    /\ UNCHANGED <<batches, isOpen, cart, isScanning, isCameraOpen, scans, nScans>>

\* the batch query of the current line returns its rows
FetchReturns(c) ==
    /\ checkouts[c].pc = "fetch"
    /\ LET co == checkouts[c]
           item == co.items[co.line]
       IN  \E o \in FefoOrders(ActiveBatches(batches, item.productId)) :
             LET rows == [i \in 1..Len(o) |-> [id |-> o[i], quantity |-> batches[o[i]].quantity]]
                 next == Continue([co EXCEPT !.fetched = rows, !.bidx = 1])
             IN  /\ checkouts' = [checkouts EXCEPT ![c] = Slot(next)]
                 /\ Settle(next)
    /\ UNCHANGED <<batches, scans, nScans, nCheckouts>>

\* the batch query returns fetchError
FetchFails(c) ==
    /\ checkouts[c].pc = "fetch"
    /\ LET next == Thrown(checkouts[c], "fetch")
       IN  /\ checkouts' = [checkouts EXCEPT ![c] = Slot(next)]
           /\ Settle(next)
    /\ UNCHANGED <<batches, scans, nScans, nCheckouts>>

\* Fetched with the quantity read again when the update is applied
FetchedAgain(co) ==
    [id |-> co.fetched[co.bidx].id,
     quantity |-> batches[co.fetched[co.bidx].id].quantity]

\* the batch of the loop: the row as the fetch of the line returned it
Fetched(co) == co.fetched[co.bidx]

\* the update of the current batch is applied and returns
UpdateReturns(c) ==
    /\ checkouts[c].pc = "update"
    /\ LET co == checkouts[c]
           batch == Fetched(co)
           deduction == Deduction(co.quantityToDeduct, batch.quantity)
           newQuantity == batch.quantity - deduction
           next == Continue([co EXCEPT !.quantityToDeduct = @ - deduction,
                                       !.bidx = @ + 1])
       IN  /\ batches' = [batches EXCEPT ![batch.id] = UpdatePayload(newQuantity)]
           /\ checkouts' = [r \in CheckoutSlots |->
                              IF r = c THEN Slot(next)
                              ELSE IF InFlight(r)
                                   THEN [checkouts[r] EXCEPT !.interfered = TRUE]
                                   ELSE checkouts[r]]
           /\ Settle(next)
    /\ UNCHANGED <<scans, nScans, nCheckouts>>

\* the update returns updateError and writes nothing
UpdateFails(c) ==
    /\ checkouts[c].pc = "update"
    /\ LET next == Thrown(checkouts[c], "update")
       IN  /\ checkouts' = [checkouts EXCEPT ![c] = Slot(next)]
           /\ Settle(next)
    /\ UNCHANGED <<batches, scans, nScans, nCheckouts>>

(* -------------------------- specifications ---------------------------- *)
\* Spec: one terminal: the dialog, the camera scans one at a time, the cart
\* edits and the checkout
Init ==
    /\ batches \in InitialDirectories
    /\ isOpen = [t \in Terminals |-> FALSE]
    /\ cart = [t \in Terminals |-> <<>>]
    /\ isScanning = [t \in Terminals |-> FALSE]
    /\ isCheckingOut = [t \in Terminals |-> FALSE]
    /\ isCameraOpen = [t \in Terminals |-> FALSE]
    /\ scans = [s \in ScanSlots |-> IdleScan]
    /\ checkouts = [c \in CheckoutSlots |-> IdleCheckout]
    /\ nScans = 0
    /\ nCheckouts = 0
    /\ returned = IdleCheckout
    /\ resolved = IdleScan
    /\ upload = IdleUpload

Next ==
    \/ OpenDialog("t1")
    \/ CloseDialog("t1")
    \/ OpenCamera("t1")
    \/ CloseCamera("t1")
    \/ Capture("t1", MaxScans, 1)
    \/ \E s \in ScanSlots : OcrFails(s)
    \/ \E s \in ScanSlots, g \in Guesses : OcrReturns(s, g)
    \/ \E s \in ScanSlots : Probe(s)
    \/ \E s \in ScanSlots : FetchInventory(s)
    \/ \E s \in ScanSlots : FetchFallback(s)
    \/ \E p \in Products, n \in -1..MaxTyped : changeQty("t1", p, n)
    \/ \E p \in Products : removeItem("t1", p)
    \/ \E w \in BOOLEAN : finalizeCheckout("t1", w, MaxCheckouts)
    \/ \E c \in CheckoutSlots : FetchReturns(c)
    \/ \E c \in CheckoutSlots : FetchFails(c)
    \/ \E c \in CheckoutSlots : UpdateReturns(c)
    \/ \E c \in CheckoutSlots : UpdateFails(c)

Spec == Init /\ [][Next]_vars

\* SpecScan: one terminal, the scanner, the resolver and the cart edits; no
\* checkout writes the directory
NextScan ==
    \/ OpenDialog("t1")
    \/ CloseDialog("t1")
    \/ OpenCamera("t1")
    \/ CloseCamera("t1")
    \/ Capture("t1", MaxResolves, 1)
    \/ \E s \in ScanSlots : OcrFails(s)
    \/ \E s \in ScanSlots, g \in Guesses : OcrReturns(s, g)
    \/ \E s \in ScanSlots : Probe(s)
    \/ \E s \in ScanSlots : FetchInventory(s)
    \/ \E s \in ScanSlots : FetchFallback(s)
    \/ \E p \in Products, n \in -1..MaxTyped : changeQty("t1", p, n)
    \/ \E p \in Products : removeItem("t1", p)

SpecScan == Init /\ [][NextScan]_vars

\* SpecOverlap: one terminal with its dialog and its camera open, whose
\* captures overlap: a second processImage call starts while the first is
\* in flight
InitOverlap ==
    /\ batches \in InitialDirectories
    /\ isOpen = [t \in Terminals |-> t = "t1"]
    /\ cart = [t \in Terminals |-> <<>>]
    /\ isScanning = [t \in Terminals |-> FALSE]
    /\ isCheckingOut = [t \in Terminals |-> FALSE]
    /\ isCameraOpen = [t \in Terminals |-> t = "t1"]
    /\ scans = [s \in ScanSlots |-> IdleScan]
    /\ checkouts = [c \in CheckoutSlots |-> IdleCheckout]
    /\ returned = IdleCheckout
    /\ resolved = IdleScan
    /\ upload = IdleUpload
    /\ nScans = 0
    /\ nCheckouts = 0

\* the guesses of SpecOverlap: Tea by code, with and without a date, Tea or
\* teak by name and date, a product without stock, and nothing
OverlapGuesses ==
    { NoGuess,
      Guess("g1", <<>>, ""),
      Guess("g1", <<>>, "2024-01-01"),
      Guess("", <<"t", "E", "a">>, "2024-02-01"),
      Guess("", <<"o", "a", "t">>, "") }

NextOverlap ==
    \/ Capture("t1", MaxOverlapped, Cardinality(ScanSlots))
    \/ \E s \in ScanSlots : OcrFails(s)
    \/ \E s \in ScanSlots, g \in OverlapGuesses : OcrReturns(s, g)
    \/ \E s \in ScanSlots : Probe(s)
    \/ \E s \in ScanSlots : FetchInventory(s)
    \/ \E s \in ScanSlots : FetchFallback(s)
    \/ \E p \in Products, n \in -1..MaxTyped : changeQty("t1", p, n)
    \/ \E p \in Products : removeItem("t1", p)

SpecOverlap == InitOverlap /\ [][NextOverlap]_vars

\* SpecUpload: one terminal with its dialog open uploads up to MaxImages
\* images; the operator may cancel and reopen meanwhile.  Every await
\* settles: a FileReader fires onload or onerror, a remote call returns data
\* or an error.
NextUpload ==
    \/ OpenDialog("t1")
    \/ CloseDialog("t1")
    \/ \E n \in 1..MaxImages : handleImageUpload("t1", n)
    \/ toBase64Fails
    \/ toBase64Returns
    \/ \E s \in ScanSlots : OcrFails(s)
    \/ \E s \in ScanSlots, g \in OverlapGuesses : OcrReturns(s, g)
    \/ \E s \in ScanSlots : Probe(s)
    \/ \E s \in ScanSlots : FetchInventory(s)
    \/ \E s \in ScanSlots : FetchFallback(s)

\* the steps in which an await of the upload settles
UploadSettles ==
    \/ toBase64Fails
    \/ toBase64Returns
    \/ \E s \in ScanSlots : OcrFails(s)
    \/ \E s \in ScanSlots, g \in OverlapGuesses : OcrReturns(s, g)
    \/ \E s \in ScanSlots : Probe(s)
    \/ \E s \in ScanSlots : FetchInventory(s)
    \/ \E s \in ScanSlots : FetchFallback(s)

SpecUpload == InitOverlap /\ [][NextUpload]_vars /\ WF_vars(UploadSettles)

\* the carts scanning and editing build: lines of distinct products with
\* stock at the shop
LineOf(p, q) ==
    [productId |-> p, gtin |-> ProductGtin(p), name |-> ProductName(p), qty |-> q,
     unitPrice |-> IF p = "p1" THEN UnitPrice("b1") ELSE UnitPrice("b3"),
     availableQty |-> IF p = "p1" THEN MaxLineQty ELSE 1]

BuiltCarts ==
    {<<LineOf("p1", q)>> : q \in 1..MaxLineQty}
      \cup {<<LineOf("p2", 1)>>}
      \cup {<<LineOf("p1", q), LineOf("p2", 1)>> : q \in 1..MaxLineQty}
      \cup {<<LineOf("p2", 1), LineOf("p1", q)>> : q \in 1..MaxLineQty}

\* SpecCheckout: one terminal with its dialog open on a built cart; the
\* operator edits the cart, cancels, reopens and checks out
InitCheckout ==
    /\ batches \in InitialDirectories
    /\ isOpen = [t \in Terminals |-> t = "t1"]
    /\ cart \in {[t \in Terminals |-> IF t = "t1" THEN c ELSE <<>>] : c \in BuiltCarts}
    /\ isScanning = [t \in Terminals |-> FALSE]
    /\ isCheckingOut = [t \in Terminals |-> FALSE]
    /\ isCameraOpen = [t \in Terminals |-> FALSE]
    /\ scans = [s \in ScanSlots |-> IdleScan]
    /\ checkouts = [c \in CheckoutSlots |-> IdleCheckout]
    /\ returned = IdleCheckout
    /\ resolved = IdleScan
    /\ upload = IdleUpload
    /\ nScans = 0
    /\ nCheckouts = 0

NextCheckout ==
    \/ OpenDialog("t1")
    \/ CloseDialog("t1")
    \/ \E p \in Products, n \in -1..MaxTyped : changeQty("t1", p, n)
    \/ \E p \in Products : removeItem("t1", p)
    \/ \E w \in BOOLEAN : finalizeCheckout("t1", w, MaxSales)
    \/ \E c \in CheckoutSlots : FetchReturns(c)
    \/ \E c \in CheckoutSlots : FetchFails(c)
    \/ \E c \in CheckoutSlots : UpdateReturns(c)
    \/ \E c \in CheckoutSlots : UpdateFails(c)

SpecCheckout == InitCheckout /\ [][NextCheckout]_vars

\* SpecRace: two terminals of the shop, each with its dialog open on a built
\* cart (one line on t2), check out against the same directory; the receipt
\* window opens
InitRace ==
    /\ batches \in InitialDirectories
    /\ isOpen = [t \in Terminals |-> TRUE]
    /\ cart \in {[t \in Terminals |-> IF t = "t1" THEN c ELSE d] :
                   c \in BuiltCarts, d \in {x \in BuiltCarts : Len(x) = 1}}
    /\ isScanning = [t \in Terminals |-> FALSE]
    /\ isCheckingOut = [t \in Terminals |-> FALSE]
    /\ isCameraOpen = [t \in Terminals |-> FALSE]
    /\ scans = [s \in ScanSlots |-> IdleScan]
    /\ checkouts = [c \in CheckoutSlots |-> IdleCheckout]
    /\ returned = IdleCheckout
    /\ resolved = IdleScan
    /\ upload = IdleUpload
    /\ nScans = 0
    /\ nCheckouts = 0

NextRace ==
    \/ \E t \in Terminals : finalizeCheckout(t, TRUE, MaxSales)
    \/ \E c \in CheckoutSlots : FetchReturns(c)
    \/ \E c \in CheckoutSlots : FetchFails(c)
    \/ \E c \in CheckoutSlots : UpdateReturns(c)
    \/ \E c \in CheckoutSlots : UpdateFails(c)

SpecRace == InitRace /\ [][NextRace]_vars

\* SpecStale: terminal t1 scans and edits its cart while terminal t2 sells
\* a one-line cart out of the same directory, so that the batches change
\* between the scans of t1
InitStale ==
    /\ batches \in InitialDirectories
    /\ isOpen = [t \in Terminals |-> TRUE]
    /\ cart \in {[t \in Terminals |-> IF t = "t1" THEN <<>> ELSE d] :
                   d \in {x \in BuiltCarts : Len(x) = 1}}
    /\ isScanning = [t \in Terminals |-> FALSE]
    /\ isCheckingOut = [t \in Terminals |-> FALSE]
    /\ isCameraOpen = [t \in Terminals |-> t = "t1"]
    /\ scans = [s \in ScanSlots |-> IdleScan]
    /\ checkouts = [c \in CheckoutSlots |-> IdleCheckout]
    /\ returned = IdleCheckout
    /\ resolved = IdleScan
    /\ upload = IdleUpload
    /\ nScans = 0
    /\ nCheckouts = 0

\* the guesses of SpecStale: those that name a product in stock
StaleGuesses == {g \in OverlapGuesses : g.gtin # "" \/ g.expiryDate # ""}

NextStale ==
    \/ Capture("t1", MaxScans, 1)
    \/ \E s \in ScanSlots, g \in StaleGuesses : OcrReturns(s, g)
    \/ \E s \in ScanSlots : Probe(s)
    \/ \E s \in ScanSlots : FetchInventory(s)
    \/ \E s \in ScanSlots : FetchFallback(s)
    \/ \E p \in Products, n \in -1..MaxTyped : changeQty("t1", p, n)
    \/ finalizeCheckout("t2", TRUE, MaxCheckouts)
    \/ \E c \in CheckoutSlots : FetchReturns(c)
    \/ \E c \in CheckoutSlots : UpdateReturns(c)

SpecStale == InitStale /\ [][NextStale]_vars

(* ============================ properties ============================== *)
\* the batches of product p at the shop that a checkout starting on the
\* directory start may deduct from
Stock(start, p) == ActiveBatches(start, p)

\* those of them that expire before b
Earlier(start, p, b) ==
    {x \in Stock(start, p) :
        ExpiryRank(BatchRow(x).expiry_date) < ExpiryRank(BatchRow(b).expiry_date)}

\* what is left of a request of q units of p when FEFO reaches batch b
Remaining(start, p, q, b) ==
    IF q > SumQuantity(start, Earlier(start, p, b))
    THEN q - SumQuantity(start, Earlier(start, p, b))
    ELSE 0

\* the quantity of b after q units of p were deducted first-expiry-first-out
FefoQuantity(start, p, q, b) ==
    start[b].quantity - Min(Remaining(start, p, q, b), start[b].quantity)

\* the call r ran alone: no other call wrote a batch while it was in flight
RanAlone(r) == r.pc = "done" /\ ~r.interfered

(* C1: a checkout with no failing call and no concurrent writer leaves every
   batch of every cart line's product at its FEFO quantity: batches taken in
   ascending expiry order, each reduced by min(remaining, its quantity); so a
   batch is reduced only if all earlier-expiring ones are at zero, and the
   total deducted is the requested quantity when the stock suffices. *)
C1_FefoDeduction ==
    (RanAlone(returned) /\ returned.outcome = "Success") =>
        \A i \in 1..Len(returned.items) :
            LET p == returned.items[i].productId
                q == returned.items[i].qty
                start == returned.dirAtStart
            IN  /\ \A b \in Stock(start, p) :
                      /\ batches[b].quantity = FefoQuantity(start, p, q, b)
                      /\ batches[b].quantity < start[b].quantity =>
                             \A x \in Earlier(start, p, b) : batches[x].quantity = 0
                /\ SumQuantity(start, Stock(start, p)) >= q =>
                      SumQuantity(start, Stock(start, p))
                          - SumQuantity(batches, Stock(start, p)) = q

\* 3 units against [2, 2] leave [0, 1]
C1_Witness ==
    /\ RanAlone(returned) /\ returned.outcome = "Success"
    /\ \E i \in 1..Len(returned.items) :
          returned.items[i].productId = "p1" /\ returned.items[i].qty = 3
    /\ returned.dirAtStart["b1"].quantity = 2 /\ returned.dirAtStart["b2"].quantity = 2
    /\ batches["b1"].quantity = 0 /\ batches["b2"].quantity = 1

\* the number of batches of the failing line that the call r has updated
UpdatedOfLine(r) == IF r.errKind = "update" THEN r.bidx - 1 ELSE 0

(* C2: when a fetch or an update fails on line k, the deductions written for
   the lines before k and for the earlier batches of line k stay in the
   directory, the batches not yet reached keep their quantity, and the error
   names the product of line k. *)
C2_NoRollback ==
    (RanAlone(returned) /\ returned.outcome = "PartialFailure") =>
        LET k == returned.line
            start == returned.dirAtStart
        IN  /\ returned.errName = returned.items[k].name
            /\ \A i \in 1..(k - 1) :
                  \A b \in Stock(start, returned.items[i].productId) :
                      batches[b].quantity =
                          FefoQuantity(start, returned.items[i].productId,
                                       returned.items[i].qty, b)
            /\ \A b \in Stock(start, returned.items[k].productId) :
                  batches[b].quantity =
                      IF Cardinality(Earlier(start, returned.items[k].productId, b))
                             < UpdatedOfLine(returned)
                      THEN FefoQuantity(start, returned.items[k].productId,
                                        returned.items[k].qty, b)
                      ELSE start[b].quantity

\* the update of line 2 fails after line 1 was deducted
C2_Witness ==
    /\ RanAlone(returned) /\ returned.outcome = "PartialFailure"
    /\ returned.line = 2 /\ returned.errKind = "update"
    /\ returned.errName = returned.items[2].name
    /\ returned.errName # returned.items[1].name
    /\ SumQuantity(batches, Stock(returned.dirAtStart, returned.items[1].productId))
          < SumQuantity(returned.dirAtStart,
                        Stock(returned.dirAtStart, returned.items[1].productId))

\* the receipt of the cart c
ReceiptOf(c) ==
    [rendered |-> TRUE,
     lines |-> [i \in 1..Len(c) |->
                  [name |-> c[i].name, qty |-> c[i].qty, unitPrice |-> c[i].unitPrice,
                   total |-> c[i].qty * c[i].unitPrice]],
     subtotal |-> SeqSum([i \in 1..Len(c) |-> c[i].qty * c[i].unitPrice])]

(* C3 as stated: in every checkout the receipt is rendered before the first
   inventory query is issued and whatever the outcome. *)
C3_ReceiptAlways ==
    /\ \A c \in CheckoutSlots : checkouts[c].ncalls > 0 => checkouts[c].receipt.rendered
    /\ returned.pc = "done" => returned.receipt.rendered

(* C3 amended: whenever window.open returns a window, the receipt of the cart
   is rendered before the first inventory query is issued and whatever the
   outcome, also when every directory call fails. *)
C3_ReceiptWhenWindowOpens ==
    /\ \A c \in CheckoutSlots :
          (checkouts[c].ncalls > 0 /\ checkouts[c].window) =>
              checkouts[c].receipt = ReceiptOf(checkouts[c].items)
    /\ (returned.pc = "done" /\ returned.window) =>
          returned.receipt = ReceiptOf(returned.items)

\* the only directory call of the checkout failed, the receipt is there
C3_Witness ==
    /\ returned.outcome = "PartialFailure"
    /\ returned.failedAt = 1 /\ returned.ncalls = 1
    /\ returned.window /\ returned.receipt.rendered
    /\ returned.receipt.lines # <<>>

(* C4: after a checkout that ends in Success the cart is empty and the
   session is closed. *)
C4_SuccessClearsCart ==
    returned.outcome = "Success" =>
        cart[returned.term] = <<>> /\ ~isOpen[returned.term]

(* C5 as stated: after a checkout that ends in PartialFailure the session is
   open and the cart is the cart the checkout started with. *)
C5_FailureKeepsStartCart ==
    returned.outcome = "PartialFailure" =>
        isOpen[returned.term] /\ cart[returned.term] = returned.items

\* a step of some finalizeCheckout call
CheckoutStep == checkouts' # checkouts \/ returned'.pc = "done"

(* C5 amended: no step of a checkout that does not end in Success changes a
   cart or opens or closes a session; the step that returns PartialFailure
   leaves the cart and the session as the operator had them just before. *)
C5_FailureLeavesDialog ==
    [][(CheckoutStep /\ returned'.outcome # "Success") =>
          (cart' = cart /\ isOpen' = isOpen)]_vars

\* a failed checkout on an untouched dialog: open, with the start cart
C5_Witness ==
    /\ returned.outcome = "PartialFailure"
    /\ isOpen[returned.term]
    /\ cart[returned.term] = returned.items
    /\ returned.items # <<>>

(* C6: once a fetch or an update has failed, the checkout issues no further
   directory call and its outcome is PartialFailure, never Success. *)
C6_AbortOnFailure ==
    /\ \A c \in CheckoutSlots : checkouts[c].failedAt = -1
    /\ returned.pc = "done" =>
          IF returned.failedAt = -1
          THEN returned.outcome = "Success"
          ELSE returned.outcome = "PartialFailure"
                  /\ returned.ncalls = returned.failedAt

\* a failure on the first line of a two-line cart: line 2 is never fetched
C6_Witness ==
    /\ returned.outcome = "PartialFailure"
    /\ returned.line = 1 /\ Len(returned.items) = 2
    /\ returned.ncalls = returned.failedAt

(* C7: every cart line has 1 <= qty <= its own availableQty, after any
   sequence of scans, quantity edits and removals. *)
C7_QtyWithinSnapshot ==
    \A t \in Terminals : \A i \in 1..Len(cart[t]) :
        1 <= cart[t][i].qty /\ cart[t][i].qty <= cart[t][i].availableQty

\* the line of product pid in the cart c
LineFor(c, pid) == c[FindIndex(c, pid)]

(* C8: setQuantity(productId, n) leaves quantity = n when 0 < n <=
   availableQty, quantity = availableQty when n > availableQty, quantity
   unchanged when n <= 0, and never a quantity above availableQty. *)
C8_SetQuantity ==
    [][\A t \in Terminals, pid \in Products, n \in -1..MaxTyped :
          changeQty(t, pid, n) =>
              LET old == LineFor(cart[t], pid)
                  new == LineFor(cart'[t], pid)
              IN  /\ (0 < n /\ n <= old.availableQty) => new.qty = n
                  /\ n > old.availableQty => new.qty = old.availableQty
                  /\ n <= 0 => new.qty = old.qty
                  /\ new.qty <= new.availableQty]_vars

(* C9: from a directory where a batch is sold_out exactly when its quantity
   is 0, every batch stays sold_out exactly when its quantity is 0 through
   any checkout steps, complete, failed or interleaved between terminals. *)
C9_DepletedIffZero ==
    \A b \in BatchIds : batches[b].status = "sold_out" <=> batches[b].quantity = 0

\* a failed checkout that raced another one and emptied a batch
C9_Witness ==
    /\ returned.outcome = "PartialFailure" /\ returned.interfered
    /\ \E b \in BatchIds :
          /\ returned.dirAtStart[b].quantity > 0
          /\ batches[b].quantity = 0 /\ batches[b].status = "sold_out"

\* the products whose stored code is the code of the guess g
CarryingCode(g) == {p \in Products : g.gtin # "" /\ ProductGtin(p) = g.gtin}

(* C10: a guess whose code is the stored code of exactly one product
   resolves to that product whatever its name and expiry are: the name
   search and the expiry tie-break are never entered. *)
C10_CodeMatchWins ==
    /\ \A s \in ScanSlots :
          (scans[s].pc \notin {"idle", "ocr"}
              /\ Cardinality(CarryingCode(scans[s].guess)) = 1) =>
                 /\ scans[s].pc # "probe"
                 /\ scans[s].product \in CarryingCode(scans[s].guess)
    /\ (resolved.pc = "done" /\ resolved.outcome # "ScanFailed"
            /\ Cardinality(CarryingCode(resolved.guess)) = 1) =>
          /\ resolved.product \in CarryingCode(resolved.guess)
          /\ resolved.outcome # "ProductNotFound"

\* the code of p1 with the name and the batch expiry of p2: p1 is added
C10_Witness ==
    /\ resolved.outcome = "Added"
    /\ resolved.guess = Guess("g1", <<" ", "a", "k", " ">>, "2024-02-01")
    /\ ProductsByName(Trim(resolved.guess.productName)) = {<<"p2">>}
    /\ resolved.product = "p1"
    /\ HasLine(cart[resolved.term], "p1")

\* the candidates of cands with an active batch of the shop expiring on d
WithExpiry(cands, d) ==
    {i \in 1..Len(cands) : \E b \in BatchIds :
        /\ BatchRow(b).product_id = cands[i] /\ BatchRow(b).shop_id = shopId
        /\ BatchRow(b).expiry_date = d
        /\ batches[b].status = "active" /\ batches[b].quantity > 0}

\* the candidate the contract selects
Selected(cands, d) ==
    IF d # "" /\ WithExpiry(cands, d) # {}
    THEN cands[CHOOSE i \in WithExpiry(cands, d) : \A j \in WithExpiry(cands, d) : i <= j]
    ELSE cands[1]

(* C11: when the name search returned candidates c1..cn, a resolution that
   has selected its product has selected the first candidate in result
   order with an active, positive batch of the shop on the guess's expiry
   date, and c1 when the guess has no expiry date or no candidate has such a
   batch; the tie-break loop goes on only past candidates without one. *)
C11_NameTieBreak ==
    /\ \A s \in ScanSlots :
          /\ (scans[s].pc \in {"fetch", "fallback"} /\ scans[s].cands # <<>>) =>
                 scans[s].product = Selected(scans[s].cands, scans[s].guess.expiryDate)
          /\ scans[s].pc = "probe" =>
                 \A j \in 1..(scans[s].idx - 1) :
                     j \notin WithExpiry(scans[s].cands, scans[s].guess.expiryDate)
    /\ (resolved.pc = "done" /\ resolved.cands # <<>>) =>
          resolved.product = Selected(resolved.cands, resolved.guess.expiryDate)

\* the search returned <<Tea, teak>> and only teak has a batch of that date
C11_Witness ==
    /\ resolved.outcome = "Added"
    /\ resolved.guess.gtin = "" /\ resolved.guess.expiryDate = "2024-02-01"
    /\ resolved.cands = <<"p1", "p2">>
    /\ resolved.product = "p2"
    /\ HasLine(cart[resolved.term], "p2") /\ ~HasLine(cart[resolved.term], "p1")

\* a step of some processImage call
ScanStep == scans' # scans \/ resolved'.pc = "done"

\* no product carries the code of g, and g has no name or one no product matches
Unmatched(g) ==
    /\ CarryingCode(g) = {}
    /\ \/ g.productName = <<>>
       \/ \A p \in Products : ~ILikeContains(ProductName(p), Trim(g.productName))

(* C12: a resolution that ends in ProductNotFound or OutOfStock changes no
   cart: the step that reports it, like every earlier step of the attempt,
   leaves every line as it found it, and adds and removes none.  It ends in
   ProductNotFound only for a guess with no code match and no name or a name
   matching no product. *)
C12_UnresolvedKeepsCart ==
    [][/\ (ScanStep /\ resolved'.outcome \notin {"Added", "Incremented"}) => cart' = cart
       /\ resolved'.outcome = "ProductNotFound" => Unmatched(resolved'.guess)]_vars

\* Tea is out of stock at the shop while teak is in the cart
C12_Witness ==
    /\ resolved.outcome = "OutOfStock" /\ resolved.product = "p1"
    /\ HasLine(cart[resolved.term], "p2")
    /\ cart[resolved.term] = resolved.cartBefore

\* the active, positive-quantity batches of product p at the shop
InStock(p) ==
    {b \in BatchIds : /\ BatchRow(b).product_id = p /\ BatchRow(b).shop_id = shopId
                      /\ batches[b].status = "active" /\ batches[b].quantity > 0}

\* those of them expiring on d
InStockOn(p, d) == {b \in InStock(p) : BatchRow(b).expiry_date = d}

\* the batches whose quantities a line inserted for the guess g counts
Qualifying(p, g) ==
    IF InStockOn(p, g.expiryDate) # {} THEN InStockOn(p, g.expiryDate) ELSE InStock(p)

(* C13: a resolution that selected a product ends in OutOfStock exactly when
   the product has no active, positive-quantity batch at the shop, whatever
   expiry date the guess carries; a line it inserts has as availableQty the
   summed quantities of the batches on the guess's exact expiry date when
   there is one, and of all active positive batches of the product at the
   shop otherwise. *)
C13_OutOfStockIffNoBatch ==
    (resolved.pc = "done" /\ resolved.product # "") =>
        /\ resolved.outcome = "OutOfStock" <=> InStock(resolved.product) = {}
        /\ resolved.outcome = "Added" =>
              LET c == cart[resolved.term]
              IN  /\ c # <<>> /\ c[Len(c)].productId = resolved.product
                  /\ c[Len(c)].availableQty =
                         SumQuantity(batches, Qualifying(resolved.product, resolved.guess))

\* the guess's date is the date of the empty batch b1: the line counts b2
C13_Witness ==
    /\ resolved.outcome = "Added" /\ resolved.product = "p1"
    /\ resolved.guess.expiryDate = "2024-01-01"
    /\ batches["b1"].quantity = 0 /\ batches["b2"].quantity = MaxQty
    /\ LineFor(cart[resolved.term], "p1").availableQty = MaxQty

(* C14: in every reachable state a cart holds at most one line per product,
   after any scans (also scans of one product whose calls overlap), quantity
   edits and removals; a scan of a product with a line adds no second one. *)
C14_OneLinePerProduct ==
    \A t \in Terminals : \A i, j \in 1..Len(cart[t]) :
        cart[t][i].productId = cart[t][j].productId => i = j

\* two overlapping scans of Tea: the second to return found the line of the
\* first and incremented it
C14_Witness ==
    /\ resolved.outcome = "Incremented" /\ resolved.product = "p1"
    /\ resolved.overlap /\ nScans = 2
    /\ Len(cart[resolved.term]) = 1 /\ cart[resolved.term][1].qty = 2

(* C15: whenever a session opens (the dialog goes from closed to open) the
   cart is empty, whatever happened in the earlier sessions of the dialog. *)
C15_SessionOpensEmpty ==
    [][\A t \in Terminals : (~isOpen[t] /\ isOpen'[t]) => cart'[t] = <<>>]_vars

\* the processImage calls in flight that handleImageUpload made
UploadScans == {s \in ScanSlots : scans[s].pc # "idle" /\ scans[s].image # 0}

\* the images of the upload handed to the OCR function so far
Submitted == {upload.submitted[i] : i \in 1..Len(upload.submitted)}

\* the upload takes its images one at a time and in selection order
OneAtATimeInOrder ==
    /\ Cardinality(UploadScans) <= 1
    /\ \A s \in UploadScans : upload.pc = "scan" /\ scans[s].image = upload.k
    /\ \A i, j \in 1..Len(upload.submitted) :
          i < j => upload.submitted[i] < upload.submitted[j]
    /\ \A i \in 1..(upload.k - 1) : i \in Submitted \cup upload.unreadable
    /\ Submitted \cap upload.unreadable = {}

(* C16: every image of an upload is eventually taken up, one at a time and
   in selection order, and submitted to OCR (an image whose own file cannot
   be read is logged and passed over), whatever failed on the images before
   it: their reading, their OCR call or their resolution. *)
C16_EveryReadableImageSubmitted ==
    /\ []OneAtATimeInOrder
    /\ \A k \in 1..MaxImages :
          (upload.pc # "idle" /\ k <= upload.files) ~>
              (k \in Submitted \cup upload.unreadable)

\* the first file could not be read, the last one was submitted
C16_Witness ==
    /\ upload.pc = "done" /\ upload.files = MaxImages
    /\ 1 \in upload.unreadable
    /\ MaxImages \in Submitted

(* C17: no version check lies between a checkout's read of a batch and its
   write: every update writes the quantity computed from the row as the
   call fetched it, whatever the directory holds by then.  So two checkouts
   of two terminals that both read a batch before either writes it both end
   in Success with only one deduction left in the directory. *)
C17_WritesFromItsRead ==
    [][\A c \in CheckoutSlots :
          UpdateReturns(c) =>
              LET row == checkouts[c].fetched[checkouts[c].bidx]
              IN  batches'[row.id].quantity =
                      row.quantity - Min(checkouts[c].quantityToDeduct, row.quantity)]_vars

\* both terminals sold one unit of Tea out of a full batch b1 and both
\* checkouts succeeded (a dialog of SpecRace closes on Success only); b1 is
\* one unit short, not two, and b2 was not touched
C17_Witness ==
    /\ returned.outcome = "Success" /\ returned.interfered
    /\ \A t \in Terminals : ~isOpen[t] /\ cart[t] = <<LineOf("p1", 1)>>
    /\ returned.dirAtStart["b1"].quantity = MaxQty
    /\ batches["b1"].quantity = MaxQty - 1
    /\ batches["b2"] = returned.dirAtStart["b2"]
    /\ \A c \in CheckoutSlots : CheckoutFree(c)

\* the sum over the lines I of the cart c of quantity x unit price
RECURSIVE LineTotals(_, _)
LineTotals(c, I) ==
    IF I = {} THEN 0
    ELSE LET i == CHOOSE x \in I : TRUE
         IN  c[i].qty * c[i].unitPrice + LineTotals(c, I \ {i})

\* the subtotal of every cart, and of the cart of the example, is the sum of
\* its lines' quantity x unit price
SubtotalIsSum ==
    /\ \A t \in Terminals : Subtotal(cart[t]) = LineTotals(cart[t], DOMAIN cart[t])
    /\ Subtotal(<<[qty |-> 2, unitPrice |-> 50], [qty |-> 1, unitPrice |-> 30]>>) = 130

\* a receipt carries the subtotal of the cart its checkout was invoked on
ReceiptCarriesSubtotal ==
    /\ \A c \in CheckoutSlots :
          checkouts[c].receipt.rendered =>
              checkouts[c].receipt.subtotal
                  = LineTotals(checkouts[c].items, DOMAIN checkouts[c].items)
    /\ returned.receipt.rendered =>
          returned.receipt.subtotal = LineTotals(returned.items, DOMAIN returned.items)

(* C18: the subtotal of a cart is the sum over its lines of quantity x unit
   price; the step that computes it for the receipt leaves the cart as it
   is, and the subtotal on the receipt is the subtotal of the cart at the
   moment the checkout was invoked. *)
C18_SubtotalOfCart ==
    /\ []SubtotalIsSum
    /\ []ReceiptCarriesSubtotal
    /\ [][\A t \in Terminals, w \in BOOLEAN :
            finalizeCheckout(t, w, MaxSales) =>
                /\ cart' = cart
                /\ \E c \in CheckoutSlots :
                      /\ checkouts'[c].items = cart[t]
                      /\ w => checkouts'[c].receipt.subtotal
                                  = LineTotals(cart[t], DOMAIN cart[t])]_vars

\* the receipt of two units of Tea and one of teak
C18_Witness ==
    /\ returned.receipt.rendered
    /\ \E i, j \in 1..Len(returned.items) :
          /\ returned.items[i].productId = "p1" /\ returned.items[i].qty = 2
          /\ returned.items[j].productId = "p2" /\ returned.items[j].qty = 1
    /\ returned.receipt.subtotal = 2 * UnitPrice("b1") + UnitPrice("b3")

\* the cart new is the cart old but for the quantity of at most one line
OnlyOneQuantity(old, new) ==
    /\ \A i \in 1..Len(old) : new[i] = [old[i] EXCEPT !.qty = new[i].qty]
    /\ \A i, j \in 1..Len(old) : (new[i] # old[i] /\ new[j] # old[j]) => i = j

(* C19: a line keeps the unitPrice and the availableQty it was inserted
   with.  A scan that returns for a product with a line inserts nothing,
   and every step that neither inserts nor removes a line (a merging scan,
   a setQuantity) changes at most one line's quantity and leaves its
   unitPrice, availableQty, name and position and every other line as they
   were, also when the batches have changed since the line was inserted. *)
C19_LineSnapshotKept ==
    [][\A t \in Terminals :
          /\ (resolved'.pc = "done" /\ resolved'.term = t
                  /\ resolved'.product # "" /\ HasLine(cart[t], resolved'.product)) =>
                 /\ Len(cart'[t]) = Len(cart[t])
                 /\ \A i \in 1..Len(cart[t]) :
                       cart'[t][i] # cart[t][i] => cart[t][i].productId = resolved'.product
          /\ Len(cart'[t]) = Len(cart[t]) => OnlyOneQuantity(cart[t], cart'[t])]_vars

\* a scan of Tea was merged into a line that counts more units than the
\* shop has left: the other terminal sold some since the line was inserted
C19_Witness ==
    /\ resolved.outcome = "Incremented" /\ resolved.product = "p1"
    /\ LineFor(cart[resolved.term], "p1").availableQty
          > SumQuantity(batches, InStock("p1"))
    /\ LineFor(cart[resolved.term], "p1").availableQty
          = LineFor(resolved.cartBefore, "p1").availableQty

(* C20: every batch quantity is a non-negative integer in every reachable
   state: no update of any checkout, in any interleaving of the checkouts
   of the terminals and whatever quantities their carts ask for, writes a
   negative quantity. *)
C20_QuantityNonNegative ==
    \A b \in BatchIds : batches[b].quantity \in Nat

\* a cart that asked for more Tea than the shop had, checked out while the
\* other terminal was writing: the batches of Tea are at zero
C20_Witness ==
    /\ returned.outcome = "Success" /\ returned.interfered
    /\ \E i \in 1..Len(returned.items) :
          /\ returned.items[i].productId = "p1"
          /\ returned.items[i].qty
                > SumQuantity(returned.dirAtStart, Stock(returned.dirAtStart, "p1"))
    /\ Stock(returned.dirAtStart, "p1") # {}
    /\ \A b \in Stock(returned.dirAtStart, "p1") : batches[b].quantity = 0

(* C21: whenever a checkout that no other checkout wrote under reports
   Success, the active stock of every cart line's product at the shop has
   gone down by exactly the line's quantity, also when the shop held less
   than the line asks for. *)
C21_SuccessDeductsInFull ==
    (RanAlone(returned) /\ returned.outcome = "Success") =>
        \A i \in 1..Len(returned.items) :
            LET p == returned.items[i].productId
                start == returned.dirAtStart
            IN  SumQuantity(start, Stock(start, p)) - SumQuantity(batches, Stock(start, p))
                    = returned.items[i].qty

\* the batches the step changes
Written == {b \in BatchIds : batches'[b] # batches[b]}

(* C22: a step changes a batch only as the update of a checkout in flight,
   and then only the one batch that update is for: a batch of the
   checkout's shop and of the product of the cart line the checkout is at,
   which the checkout fetched with a positive quantity (hence active, by
   C9).  Batches of other shops, of products without a line and batches
   that were depleted when the line was fetched are never written,
   whatever the outcome.  The program has no write to the products table. *)
C22_WritesOnlyFetchedBatches ==
    [][\A b \in Written :
          /\ Written = {b}
          /\ BatchRow(b).shop_id = shopId
          /\ \E c \in CheckoutSlots :
                /\ checkouts[c].pc = "update"
                /\ checkouts'[c] # checkouts[c]
                /\ LET co == checkouts[c]
                   IN  /\ co.fetched[co.bidx].id = b
                       /\ co.fetched[co.bidx].quantity > 0
                       /\ BatchRow(b).product_id = co.items[co.line].productId]_vars

\* a sale of Tea took from b1 and left alone the depleted b2, the batch of
\* teak and the batch of Tea at the other shop
C22_Witness ==
    /\ returned.outcome = "Success"
    /\ Len(returned.items) = 1 /\ returned.items[1].productId = "p1"
    /\ returned.dirAtStart["b2"].quantity = 0
    /\ batches["b1"].quantity < returned.dirAtStart["b1"].quantity
    /\ \A b \in {"b2", "b3", "b4"} : batches[b] = returned.dirAtStart[b]
    /\ batches["b4"].quantity > 0 /\ batches["b3"].quantity > 0

====
